---- MODULE Spec2Model ----
(***************************************************************************)
(* A model of the 2D grid route planner (src/main.cpp): the grid loader    *)
(* (parseLine, readGridFile), the coordinate prompt (getUserInput) and the *)
(* A* search (searchPath with its helpers).                                *)
(*                                                                         *)
(* Coordinates are 0-based as in the source; a grid is a sequence of rows, *)
(* each a sequence of cell states, read through Cell and written through   *)
(* SetCell, which translate to the 1-based sequences of TLA+.              *)
(***************************************************************************)
EXTENDS Integers, Sequences, FiniteSets, TLC

\* ------------------------------------------------------------------ bounds

\* The search is checked on every rectangular grid of at most MaxCells cells,
\* its termination on every rectangular grid of at most MaxLiveCells cells.
MaxCells == 10
MaxLiveCells == 8

\* A grid file has at most MaxLines lines of at most MaxLineLen characters.
MaxLines == 2
MaxLineLen == 4

\* A line the operator types has at most MaxInputLen characters.
MaxInputLen == 3

\* ------------------------------------------------------------------ state

VARIABLES
    pc,         \* the position of the program
    grid,       \* the grid: main's before the search, searchPath's copy during it
    init,       \* the start position, <<row, col>>
    goal,       \* the finish position, <<row, col>>
    openNodes,  \* searchPath's list of open nodes, each <<x, y, g, h>>
    solution,   \* what searchPath returned: the solved grid, or the empty grid
    dequeued,   \* history: the nodes the search loop has popped, in order
    given,      \* history: the grid searchPath was called with
    ux,         \* getUserInput's local x
    uy,         \* getUserInput's local y
    loaded,     \* history: the grid readGridFile returned
    malformed   \* history: some line read so far does not follow the grid format

vars == <<pc, grid, init, goal, openNodes, solution, dequeued, given,
          ux, uy, loaded, malformed>>

\* What the search leaves alone, and what the loader and the prompt leave alone
mainVars == <<ux, uy, loaded, malformed>>
searchVars == <<openNodes, solution, dequeued>>

\* enum class State
kEmpty == "kEmpty"
kObstacle == "kObstacle"
kClosed == "kClosed"
kPath == "kPath"
kStart == "kStart"
kFinish == "kFinish"
kChosen == "kChosen"

State == {kEmpty, kObstacle, kClosed, kPath, kStart, kFinish, kChosen}

\* const int direction_delta[4][2]: up, left, down, right
direction_delta == << <<-1, 0>>, <<0, -1>>, <<1, 0>>, <<0, 1>> >>

\* grid[x][y], for a position that is on the grid
Cell(g, x, y) == g[x + 1][y + 1]

\* grid[x][y] = s
SetCell(g, x, y, s) == [g EXCEPT ![x + 1][y + 1] = s]

\* std::abs
abs(n) == IF n < 0 THEN -n ELSE n

\* A heuristic that counts every step to the goal twice
heuristic_doubled(x1, y1, x2, y2) == 2 * (abs(x2 - x1) + abs(y2 - y1))

\* int heuristic(x1, y1, x2, y2): the Manhattan distance
heuristic(x1, y1, x2, y2) == abs(x2 - x1) + abs(y2 - y1)

\* compare with the order turned round: the largest f ends at the back
compare_smallerFirst(node1, node2) == (node1[3] + node1[4]) < (node2[3] + node2[4])

\* bool compare(node1, node2): node1 goes before node2 when its f is larger
compare(node1, node2) == (node1[3] + node1[4]) > (node2[3] + node2[4])

\* sortNodes, as far as the loop reads its result: std::sort with compare may
\* leave v[i] at the back exactly when compare puts v[i] before no element.
\* Which of several such nodes ends at the back is left open by std::sort,
\* and every choice is kept.  The order of the nodes left in the list is not
\* recorded: the next iteration sorts the whole list again.
sortNodes(v) == {i \in DOMAIN v : \A j \in DOMAIN v : ~compare(v[i], v[j])}

\* v with its i-th element taken out: the list after sort and pop_back
RemoveAt(v, i) == [k \in 1 .. (Len(v) - 1) |-> IF k < i THEN v[k] ELSE v[k + 1]]

\* grid[x][y] names an element: x is a row of the grid and y is within that
\* row.  Indexing a vector anywhere else is a fault.
inVectors(g, x, y) ==
    /\ x >= 0 /\ x < Len(g)
    /\ y >= 0 /\ y < Len(g[x + 1])

\* validPosOnGrid that lets the column one past the end of the row through
validPosOnGrid_colInclusive(x, y, g) ==
    /\ x >= 0 /\ x < Len(g)
    /\ y >= 0 /\ y <= Len(g[1])

\* validPosOnGrid with a bound that is off by one: column 0 is refused
validPosOnGrid_colFromOne(x, y, g) ==
    /\ x >= 0 /\ x < Len(g)
    /\ y > 0 /\ y < Len(g[1])

\* bool validPosOnGrid(x, y, grid): the column is checked against row 0
validPosOnGrid(x, y, g) ==
    /\ x >= 0 /\ x < Len(g)
    /\ y >= 0 /\ y < Len(g[1])

\* validOpenNodePos that asks only whether the cell is not yet processed
validOpenNodePos_notProcessed(x, y, g) ==
    IF validPosOnGrid(x, y, g) THEN Cell(g, x, y) \notin {kClosed, kPath} ELSE FALSE

\* validOpenNodePos that also takes a cell that is already in the open list
validOpenNodePos_closedToo(x, y, g) ==
    IF validPosOnGrid(x, y, g) THEN Cell(g, x, y) \in {kEmpty, kClosed} ELSE FALSE

\* validOpenNodePos that also takes a cell that holds an obstacle
validOpenNodePos_obstacleToo(x, y, g) ==
    IF validPosOnGrid(x, y, g) THEN Cell(g, x, y) \in {kEmpty, kObstacle} ELSE FALSE

\* bool validOpenNodePos(x, y, grid)
validOpenNodePos(x, y, g) ==
    IF validPosOnGrid(x, y, g) THEN Cell(g, x, y) = kEmpty ELSE FALSE

\* addToOpenNodes that forgets to close the cell
addToOpenNodes_notClosed(node, open, g) ==
    [open |-> Append(open, node), grid |-> g]

\* void addToOpenNodes(node, open, grid): the pair after the call
addToOpenNodes(node, open, g) ==
    [open |-> Append(open, node), grid |-> SetCell(g, node[1], node[2], kClosed)]

\* A neighbour node that takes over the cost of the node it was found from
newNode_sameCost(x, y, currNode, gl) ==
    <<x, y, currNode[3], heuristic(x, y, gl[1], gl[2])>>

\* expandNeighbours, lines 213-216: the node for the neighbour (x, y)
newNode(x, y, currNode, gl) ==
    <<x, y, currNode[3] + 1, heuristic(x, y, gl[1], gl[2])>>

\* void expandNeighbours(currNode, goal, open, grid): the loop from direction i
\* on; <<open, grid>> after the call is expandNeighbours(1, ...).  fault: the
\* call indexed the grid at a position validPosOnGrid let through that names
\* no element, and what follows is not defined.
RECURSIVE expandNeighbours(_, _, _, _, _)
expandNeighbours(i, currNode, gl, open, g) ==
    IF i > 4 THEN [open |-> open, grid |-> g, fault |-> FALSE]
    ELSE LET x == currNode[1] + direction_delta[i][1]
             y == currNode[2] + direction_delta[i][2]
         IN IF validPosOnGrid(x, y, g) /\ ~inVectors(g, x, y)
            THEN [open |-> open, grid |-> g, fault |-> TRUE]
            ELSE IF validOpenNodePos(x, y, g)
            THEN LET r == addToOpenNodes(newNode(x, y, currNode, gl), open, g)
                 IN expandNeighbours(i + 1, currNode, gl, r.open, r.grid)
            ELSE expandNeighbours(i + 1, currNode, gl, open, g)

\* The popped cell left as it is
markPath_skipped(g, px, py) == g

\* searchPath, line 292: the popped cell is marked kPath
markPath(g, px, py) == SetCell(g, px, py, kPath)

\* The goal cell left unmarked at the end
markSolved_startOnly(g, start, px, py) == SetCell(g, start[1], start[2], kStart)

\* searchPath, lines 285-287: the start and the goal are marked in the grid
markSolved(g, start, px, py) ==
    SetCell(SetCell(g, start[1], start[2], kStart), px, py, kFinish)

\* ------------------------------------------------------------ searchPath

\* searchPath, lines 252-261: the start node is formed and added to the list.
\* The start is not checked here: closing a start that names no element of
\* the grid is a fault.
SearchStart ==
    /\ pc = "searchPath"
    /\ IF inVectors(grid, init[1], init[2])
       THEN LET startNode == <<init[1], init[2], 0,
                               heuristic(init[1], init[2], goal[1], goal[2])>>
                r == addToOpenNodes(startNode, <<>>, grid)
            IN /\ openNodes' = r.open
               /\ grid' = r.grid
               /\ pc' = "loop"
       ELSE /\ pc' = "fault"
            /\ UNCHANGED <<openNodes, grid>>
    /\ UNCHANGED <<init, goal, solution, dequeued, given, mainVars>>

\* One iteration of the loop that pops the goal node: the search succeeds
SearchGoal ==
    /\ pc = "loop"
    /\ openNodes # <<>>
    /\ \E i \in sortNodes(openNodes) :
         LET currNode == openNodes[i]
             cx == currNode[1]
             cy == currNode[2]
         IN /\ cx = goal[1] /\ cy = goal[2]
            /\ openNodes' = RemoveAt(openNodes, i)
            /\ dequeued' = Append(dequeued, currNode)
            /\ grid' = markSolved(grid, init, cx, cy)
            /\ solution' = grid'
    /\ pc' = "done"
    /\ UNCHANGED <<init, goal, given, mainVars>>

\* One iteration of the loop that pops another node: it is marked kPath and
\* its neighbours are expanded
SearchExpand ==
    /\ pc = "loop"
    /\ openNodes # <<>>
    /\ \E i \in sortNodes(openNodes) :
         LET currNode == openNodes[i]
             cx == currNode[1]
             cy == currNode[2]
         IN /\ ~(cx = goal[1] /\ cy = goal[2])
            /\ dequeued' = Append(dequeued, currNode)
            /\ \E r \in {expandNeighbours(1, currNode, goal, RemoveAt(openNodes, i),
                                           markPath(grid, cx, cy))} :
                 /\ openNodes' = r.open
                 /\ grid' = r.grid
                 /\ pc' = IF r.fault THEN "fault" ELSE "loop"
    /\ UNCHANGED <<init, goal, solution, given, mainVars>>

\* The list is empty: no path was found and the empty grid is returned
SearchFail ==
    /\ pc = "loop"
    /\ openNodes = <<>>
    /\ solution' = <<>>
    /\ pc' = "done"
    /\ UNCHANGED <<grid, init, goal, openNodes, dequeued, given, mainVars>>

\* ------------------------------------------------- the search: its inputs

\* The cells of a rows x cols grid
Cells(rows, cols) == (0 .. (rows - 1)) \X (0 .. (cols - 1))

\* The grid main hands to searchPath: obstacles where the file had them, the
\* start cell kChosen as getUserInput leaves it, every other cell kEmpty
CallGrid(rows, cols, obstacles, start) ==
    [i \in 1 .. rows |-> [j \in 1 .. cols |->
        IF <<i - 1, j - 1>> \in obstacles THEN kObstacle
        ELSE IF <<i - 1, j - 1>> = start THEN kChosen
        ELSE kEmpty]]

\* searchPath is entered with a rectangular grid of at most n cells and two
\* different cells of it that hold no obstacle
SearchCalled(n) ==
    \E rows \in 1 .. n, cols \in 1 .. n :
      /\ rows * cols <= n
      /\ \E obstacles \in SUBSET Cells(rows, cols) :
           \E s \in Cells(rows, cols) \ obstacles :
             \E f \in Cells(rows, cols) \ (obstacles \cup {s}) :
               /\ grid = CallGrid(rows, cols, obstacles, s)
               /\ given = grid
               /\ init = s
               /\ goal = f
               /\ loaded = CallGrid(rows, cols, obstacles, <<-1, -1>>)
               /\ ux = f[1]
               /\ uy = f[2]
      /\ pc = "searchPath"
      /\ openNodes = <<>>
      /\ solution = <<>>
      /\ dequeued = <<>>
      /\ malformed = FALSE

InitSearch == SearchCalled(MaxCells)

InitSearchLive == SearchCalled(MaxLiveCells)

NextSearch == SearchStart \/ SearchGoal \/ SearchExpand \/ SearchFail

\* searchPath from its call to its return
Spec == InitSearch /\ [][NextSearch]_vars

\* The search as a sequential program runs it: a step that can be taken is
\* taken
SpecFair == InitSearchLive /\ [][NextSearch]_vars /\ WF_vars(NextSearch)

\* ------------------------------------------------------ reading a stream

\* A line of text is a sequence of characters, each a string of length one.
Digit == <<"0", "1", "2", "3", "4", "5", "6", "7", "8", "9">>

IsDigit(c) == \E d \in DOMAIN Digit : Digit[d] = c

DigitValue(c) == (CHOOSE d \in DOMAIN Digit : Digit[d] = c) - 1

\* The first position from p on that holds no white space (Len + 1: none)
RECURSIVE SkipWs(_, _)
SkipWs(line, p) ==
    IF p <= Len(line) /\ line[p] = " " THEN SkipWs(line, p + 1) ELSE p

\* The first position from p on that holds no digit
RECURSIVE DigitsEnd(_, _)
DigitsEnd(line, p) ==
    IF p <= Len(line) /\ IsDigit(line[p]) THEN DigitsEnd(line, p + 1) ELSE p

\* The decimal value of the digits line[p .. q - 1], read after value acc
RECURSIVE DecimalValue(_, _, _, _)
DecimalValue(line, p, q, acc) ==
    IF p >= q THEN acc
    ELSE DecimalValue(line, p + 1, q, 10 * acc + DigitValue(line[p]))

\* An istringstream over line: the read position and the fail bit
Stream(line) == [line |-> line, pos |-> 1, fail |-> FALSE]

\* stream >> n for an int n: the stream after it, whether a value is stored
\* in n, and the value.  A stream that has failed, or holds nothing but white
\* space, leaves n alone; text that is no number sets the fail bit and
\* stores 0.
ExtractInt(stream) ==
    IF stream.fail THEN [stream |-> stream, stored |-> FALSE, value |-> 0]
    ELSE LET line == stream.line
             p == SkipWs(line, stream.pos)
         IN IF p > Len(line)
            THEN [stream |-> [stream EXCEPT !.pos = p, !.fail = TRUE],
                  stored |-> FALSE, value |-> 0]
            ELSE LET signed == line[p] \in {"-", "+"}
                     s == IF signed THEN p + 1 ELSE p
                     e == DigitsEnd(line, s)
                     v == DecimalValue(line, s, e, 0)
                 IN IF e = s
                    THEN [stream |-> [stream EXCEPT !.pos = s, !.fail = TRUE],
                          stored |-> TRUE, value |-> 0]
                    ELSE [stream |-> [stream EXCEPT !.pos = e],
                          stored |-> TRUE,
                          value |-> IF line[p] = "-" THEN -v ELSE v]

\* stream >> c for a char c: the next character that is no white space; at
\* the end of the text the fail bit is set and c is left alone
ExtractChar(stream) ==
    IF stream.fail THEN [stream |-> stream, stored |-> FALSE, value |-> " "]
    ELSE LET p == SkipWs(stream.line, stream.pos)
         IN IF p > Len(stream.line)
            THEN [stream |-> [stream EXCEPT !.pos = p, !.fail = TRUE],
                  stored |-> FALSE, value |-> " "]
            ELSE [stream |-> [stream EXCEPT !.pos = p + 1],
                  stored |-> TRUE, value |-> stream.line[p]]

\* The lines of at most n characters of alphabet
LinesUpTo(alphabet, n) == UNION {[1 .. k -> alphabet] : k \in 0 .. n}

\* ------------------------------------------------------- the grid loader

\* parseLine's loop, while (sLine >> n >> c && c == ','), from the stream's
\* position with the cells of row already parsed
RECURSIVE parseFrom(_, _)
parseFrom(stream, row) ==
    LET n == ExtractInt(stream)
        c == ExtractChar(n.stream)
    IN IF ~c.stream.fail /\ c.value = ","
       THEN parseFrom(c.stream,
                      Append(row, IF n.value # 0 THEN kObstacle ELSE kEmpty))
       ELSE row

\* vector<State> parseLine(string line)
parseLine(line) == parseFrom(Stream(line), <<>>)

\* The characters of a grid file (x: any character that is no digit, comma or
\* white space) and its lines
FileChars == {"0", "1", ",", " ", "x"}
FileLines == LinesUpTo(FileChars, MaxLineLen)

\* The grid format: a line is one or more numbers, each followed by a comma.
\* WellFormedFrom: the text from p on is n items already read plus zero or
\* more items, and nothing else
RECURSIVE WellFormedFrom(_, _, _)
WellFormedFrom(line, p, n) ==
    LET q == SkipWs(line, p)
        e == DigitsEnd(line, q)
        r == SkipWs(line, e)
    IN IF q > Len(line) THEN n > 0
       ELSE IF e = q THEN FALSE
       ELSE IF r > Len(line) THEN FALSE
       ELSE IF line[r] # "," THEN FALSE
       ELSE WellFormedFrom(line, r + 1, n + 1)

WellFormedLine(line) == WellFormedFrom(line, 1, 0)

\* What readGridFile gets from each line a file can hold: the row parseLine
\* returns for it, with whether the line follows the format
FileRows ==
    {[row |-> parseLine(line), wellFormed |-> WellFormedLine(line)] :
        line \in FileLines}

\* readGridFile, lines 98-106, a line that parses to a row: the row is added
ReadRow ==
    /\ pc = "readGridFile"
    /\ Len(grid) < MaxLines
    /\ \E line \in FileRows :
         /\ line.row # <<>>
         /\ grid' = Append(grid, line.row)
         /\ malformed' = (malformed \/ ~line.wellFormed)
    /\ UNCHANGED <<pc, init, goal, given, ux, uy, loaded, searchVars>>

\* readGridFile, lines 98-104, a line that parses to no cell: the grid is
\* cleared and returned, and main (lines 374-377) ends the program
ReadInvalid ==
    /\ pc = "readGridFile"
    /\ Len(grid) < MaxLines
    /\ \E line \in FileRows :
         /\ line.row = <<>>
         /\ malformed' = (malformed \/ ~line.wellFormed)
    /\ grid' = <<>>
    /\ loaded' = <<>>
    /\ pc' = "exit"
    /\ UNCHANGED <<init, goal, given, ux, uy, searchVars>>

\* readGridFile, lines 95-109, no line is left (or the file did not open): the
\* grid is returned; main (lines 372-385) ends the program when it is empty
\* and goes on to getUserInput when it is not
ReadEnd ==
    /\ pc = "readGridFile"
    /\ loaded' = grid
    /\ pc' = IF grid = <<>> THEN "exit" ELSE "startPrompt"
    /\ UNCHANGED <<grid, init, goal, given, ux, uy, malformed, searchVars>>

\* ---------------------------------------------------------- getUserInput

\* The characters of a line the operator types, and the lines
InputChars == {"0", "1", " ", "-", "x"}
InputLines == LinesUpTo(InputChars, MaxInputLen)

\* stream >> x >> y, lines 319-321 and 337-339, for one line: for each of x
\* and y whether a value is stored in it, and the value
ExtractPair(line) ==
    LET a == ExtractInt(Stream(line))
        b == ExtractInt(a.stream)
    IN [xStored |-> a.stored, x |-> a.value, yStored |-> b.stored, y |-> b.value]

\* What stream >> x >> y does for each line the operator can type
InputReads == {ExtractPair(line) : line \in InputLines}

\* x and y after stream >> x >> y, when they held oldx and oldy before: x
\* and y outlive the iterations of the loop (line 304), so a value that is not
\* stored leaves the one of the entry before
AfterRead(read, oldx, oldy) ==
    [x |-> IF read.xStored THEN read.x ELSE oldx,
     y |-> IF read.yStored THEN read.y ELSE oldy]

\* What reading grid[px][py] can yield at a position validPosOnGrid accepts:
\* the cell, or, past the end of a row shorter than row 0, whatever lies in
\* memory behind the row
ReadCell(g, px, py) ==
    IF py < Len(g[px + 1]) THEN {Cell(g, px, py)} ELSE State

\* grid[px][py] = s at such a position: past the end of the row the write
\* changes no cell of the grid
WriteCell(g, px, py, s) ==
    IF px >= 0 /\ px < Len(g) /\ py >= 0 /\ py < Len(g[px + 1])
    THEN SetCell(g, px, py, s) ELSE g

\* The roll-back left out: the chosen start cell stays kChosen
resetChosen_skipped(g, start) == g

\* Lines 351-352: the chosen start cell is set back to kEmpty
resetChosen(g, start) == WriteCell(g, start[1], start[2], kEmpty)

\* Lines 317-334, a start that is on the grid and empty: it is kept in init
\* and its cell is marked kChosen
StartAccepted ==
    /\ pc = "startPrompt"
    /\ \E read \in InputReads :
         \E in \in {AfterRead(read, ux, uy)} :
            /\ validPosOnGrid(in.x, in.y, grid)
            /\ kEmpty \in ReadCell(grid, in.x, in.y)
            /\ ux' = in.x
            /\ uy' = in.y
            /\ init' = <<in.x, in.y>>
            /\ grid' = WriteCell(grid, in.x, in.y, kChosen)
    /\ pc' = "goalPrompt"
    /\ UNCHANGED <<goal, given, loaded, malformed, searchVars>>

\* Lines 317-332, any other start: "Invalid Input!!", and the start is asked
\* for again
StartRejected ==
    /\ pc = "startPrompt"
    /\ \E read \in InputReads :
         \E in \in {AfterRead(read, ux, uy)} :
            /\ IF validPosOnGrid(in.x, in.y, grid)
               THEN ReadCell(grid, in.x, in.y) # {kEmpty}
               ELSE TRUE
            /\ ux' = in.x
            /\ uy' = in.y
    /\ UNCHANGED <<pc, grid, init, goal, given, loaded, malformed, searchVars>>

\* Lines 335-346, a goal that is on the grid and empty: it is kept in goal,
\* getUserInput returns and main (line 393) calls searchPath with the grid
GoalAccepted ==
    /\ pc = "goalPrompt"
    /\ \E read \in InputReads :
         \E in \in {AfterRead(read, ux, uy)} :
            /\ validPosOnGrid(in.x, in.y, grid)
            /\ kEmpty \in ReadCell(grid, in.x, in.y)
            /\ ux' = in.x
            /\ uy' = in.y
            /\ goal' = <<in.x, in.y>>
    /\ given' = grid
    /\ pc' = "searchPath"
    /\ UNCHANGED <<grid, init, loaded, malformed, searchVars>>

\* Lines 335-353, any other goal: "Invalid Input!!", the chosen start cell is
\* set back to kEmpty and the start is asked for again
GoalRejected ==
    /\ pc = "goalPrompt"
    /\ \E read \in InputReads :
         \E in \in {AfterRead(read, ux, uy)} :
            /\ IF validPosOnGrid(in.x, in.y, grid)
               THEN ReadCell(grid, in.x, in.y) # {kEmpty}
               ELSE TRUE
            /\ ux' = in.x
            /\ uy' = in.y
    /\ grid' = resetChosen(grid, init)
    /\ pc' = "startPrompt"
    /\ UNCHANGED <<init, goal, given, loaded, malformed, searchVars>>

\* ------------------------------------------------------------------ main

\* main, lines 364-372 and 383-384: the grid is empty, the positions are zero
InitMain ==
    /\ pc = "readGridFile"
    /\ grid = <<>>
    /\ init = <<0, 0>>
    /\ goal = <<0, 0>>
    /\ ux = 0
    /\ uy = 0
    /\ openNodes = <<>>
    /\ solution = <<>>
    /\ dequeued = <<>>
    /\ given = <<>>
    /\ loaded = <<>>
    /\ malformed = FALSE

NextMain ==
    \/ ReadRow \/ ReadInvalid \/ ReadEnd
    \/ StartAccepted \/ StartRejected \/ GoalAccepted \/ GoalRejected

\* main from its start to its call of searchPath
SpecMain == InitMain /\ [][NextMain]_vars

\* ------------------------------------------------- reference definitions

\* The positions of grid g, whatever the lengths of its rows
Positions(g) ==
    UNION {{<<i - 1, j - 1>> : j \in 1 .. Len(g[i])} : i \in 1 .. Len(g)}

\* The 4-connected neighbours of p that are on g and hold no obstacle
FreeNeighbours(g, p) ==
    {q \in {<<p[1] + direction_delta[d][1], p[2] + direction_delta[d][2]>> : d \in 1 .. 4} :
       IF inVectors(g, q[1], q[2]) THEN Cell(g, q[1], q[2]) # kObstacle ELSE FALSE}

\* Breadth-first search from the cells of frontier, which lie d steps from the
\* start: the number of steps to t, or -1 when t cannot be reached
RECURSIVE Steps(_, _, _, _, _)
Steps(g, seen, frontier, t, d) ==
    IF t \in frontier THEN d
    ELSE IF frontier = {} THEN -1
    ELSE LET next == UNION {FreeNeighbours(g, p) : p \in frontier} \ seen
         IN Steps(g, seen \cup next, next, t, d + 1)

\* The length of a shortest 4-connected obstacle-free route from s to t on g
ShortestPath(g, s, t) == Steps(g, {s}, {s}, t, 0)

Reachable(g, s, t) == ShortestPath(g, s, t) >= 0

\* searchPath has returned; Success: with a solved grid
Returned == pc = "done"
Success == Returned /\ solution # <<>>

\* The positions of the nodes popped before the last one
ExpandedCells ==
    {<<dequeued[k][1], dequeued[k][2]>> : k \in 1 .. (Len(dequeued) - 1)}

\* The cells of the returned grid that are marked kPath
PathCells == {p \in Positions(solution) : Cell(solution, p[1], p[2]) = kPath}

\* --------------------------------------------------------------- claims

\* C1: when the goal can be reached from the start through 4-connected cells
\* that hold no obstacle, searchPath returns a non-empty grid in which the
\* goal cell is kFinish and the start cell is kStart, whichever of the nodes
\* of equal f each iteration pops.
C1_ReachableGoalIsFound ==
    Returned =>
        \/ /\ solution # <<>>
           /\ Cell(solution, goal[1], goal[2]) = kFinish
           /\ Cell(solution, init[1], init[2]) = kStart
        \/ ~Reachable(given, init, goal)

\* C1 witness: a search that succeeded although obstacles forced a detour
C1_Witness ==
    /\ Success
    /\ ShortestPath(given, init, goal) > heuristic(init[1], init[2], goal[1], goal[2])

\* C2: when obstacles separate the goal from the start, searchPath returns the
\* empty grid and does not report success.
C2_SeparatedGoalNoPath ==
    Returned => ((solution = <<>> /\ ~Success) \/ Reachable(given, init, goal))

\* C2 witness: a search that expanded several cells, never met the goal and
\* returned the empty grid
C2_Witness ==
    /\ Returned
    /\ ~Reachable(given, init, goal)
    /\ solution = <<>>
    /\ Len(dequeued) >= 3

\* C3: whenever searchPath succeeds, the g of the node popped at the goal is
\* the length of a shortest route from start to goal.  (The statement of the
\* claim: the search refutes it.)
C3_GoalCostIsShortest ==
    Success => dequeued[Len(dequeued)][3] = ShortestPath(given, init, goal)

\* C4: searchPath terminates, and it pops no more than rows x cols nodes.
C4_TerminatesWithinCells ==
    /\ <>Returned
    /\ [](Len(dequeued) <= Len(given) * Len(given[1]))

\* C4 witness: a search that returned after popping a node for every cell
C4_Witness ==
    /\ Returned
    /\ Len(given) > 1 /\ Len(given[1]) > 1
    /\ Len(dequeued) = Len(given) * Len(given[1])

\* C6: on success the returned grid shows the expansion trace: the start cell
\* is kStart, the goal cell kFinish, and the kPath cells are exactly the other
\* cells that were popped before the goal.
C6_PathCellsAreExpandedCells ==
    Success =>
        /\ Cell(solution, init[1], init[2]) = kStart
        /\ Cell(solution, goal[1], goal[2]) = kFinish
        /\ PathCells = ExpandedCells \ {init}

\* C6 witness: a returned grid with more kPath cells than a shortest route
\* has cells between start and goal
C6_Witness ==
    /\ Success
    /\ Cardinality(PathCells) > ShortestPath(given, init, goal) - 1
    /\ PathCells = ExpandedCells \ {init}

\* C7: when getUserInput has returned, the start and the goal handed to
\* searchPath are both cells of the grid and are different cells.  (The
\* statement of the claim: grids with rows of different lengths refute it.)
C7_StartGoalOnGridAndDistinct ==
    (pc = "searchPath") =>
        /\ init \in Positions(grid)
        /\ goal \in Positions(grid)
        /\ init # goal

\* C8: when main calls searchPath, the start cell and the goal cell are
\* kEmpty and every cell of the grid is kEmpty or kObstacle.  (The statement
\* of the claim: the start cell is still kChosen.)
C8_StartGoalEmptyAtCall ==
    (pc = "searchPath") =>
        /\ init \in Positions(grid) /\ Cell(grid, init[1], init[2]) = kEmpty
        /\ goal \in Positions(grid) /\ Cell(grid, goal[1], goal[2]) = kEmpty
        /\ \A p \in Positions(grid) : Cell(grid, p[1], p[2]) \in {kEmpty, kObstacle}

\* C9: when a line of the grid file does not parse to its end, readGridFile
\* returns the empty grid.  (The statement of the claim: a line that parses
\* up to some cell and then fails gives a row of the cells before it.)
C9_LoadAllOrNothing ==
    (pc # "readGridFile" /\ malformed) => loaded = <<>>

\* C10: every non-empty grid readGridFile returns is rectangular: its rows
\* are non-empty and of one length.  (The statement of the claim: the loader
\* never compares the lengths of the rows.)
C10_LoadedGridRectangular ==
    (pc # "readGridFile" /\ loaded # <<>>) =>
        \A i \in DOMAIN loaded :
            Len(loaded[i]) > 0 /\ Len(loaded[i]) = Len(loaded[1])

\* The cells of g that are kChosen
ChosenCells(g) == {p \in Positions(g) : Cell(g, p[1], p[2]) = kChosen}

\* C11: in getUserInput an accepted start cell is marked kChosen and nothing
\* else changes; when the goal entry that follows is rejected the cell is set
\* back to kEmpty before the start is asked for again.  So at every start
\* prompt no cell is kChosen and the grid is the loaded grid, and at no time
\* is more than one cell kChosen.
C11_ChosenStartRolledBack ==
    /\ (pc = "startPrompt") => (grid = loaded /\ ChosenCells(grid) = {})
    /\ (pc \in {"goalPrompt", "searchPath"}) =>
          /\ Positions(grid) = Positions(loaded)
          /\ \A p \in Positions(grid) :
                Cell(grid, p[1], p[2]) =
                    IF p = init THEN kChosen ELSE Cell(loaded, p[1], p[2])
    /\ (grid # <<>>) => Cardinality(ChosenCells(grid)) <= 1

\* C11 witness: the start is asked for again after a start other than (0, 0)
\* was accepted, marked, and rolled back because the goal was rejected
C11_Witness ==
    /\ pc = "startPrompt"
    /\ init # <<0, 0>>
    /\ init \in Positions(grid)
    /\ Cell(grid, init[1], init[2]) = kEmpty
    /\ grid = loaded

\* f = g + h of a node
F(node) == node[3] + node[4]

\* The nodes the search has put in the open list so far, the popped ones first
Enqueued == dequeued \o openNodes

\* The last node the loop popped
LastDequeued == dequeued[Len(dequeued)]

\* C12: every node the main loop removes from the open list has the least
\* f = g + h of all nodes that are in the open list at that moment.
C12_PoppedNodeHasLeastF ==
    [][(dequeued' # dequeued) =>
          \A j \in DOMAIN openNodes :
              F(dequeued'[Len(dequeued')]) <= F(openNodes[j])]_vars

\* C12 witness: a node was popped while a node of larger f, found by an
\* earlier expansion, stayed in the open list
C12_Witness ==
    /\ Len(dequeued) >= 2
    /\ \E j \in DOMAIN openNodes :
          /\ openNodes[j][3] <= LastDequeued[3]
          /\ F(openNodes[j]) > F(LastDequeued)

\* C13: a cell is added to the open list at most once: the nodes in the open
\* list have different coordinates, and no node in the list has the
\* coordinates of a node popped before.
C13_CellEnqueuedAtMostOnce ==
    \A e \in {Enqueued} :
        Cardinality({<<e[k][1], e[k][2]>> : k \in DOMAIN e}) = Len(e)

\* C13 witness: several cells were expanded and the list holds a cell whose
\* neighbours include two expanded cells
C13_Witness ==
    /\ Len(dequeued) >= 3
    /\ \E j \in DOMAIN openNodes :
          Cardinality({k \in DOMAIN dequeued :
              heuristic(openNodes[j][1], openNodes[j][2],
                        dequeued[k][1], dequeued[k][2]) = 1}) >= 2

\* The cells of g that hold an obstacle
ObstacleCells(g) == {p \in Positions(g) : Cell(g, p[1], p[2]) = kObstacle}

\* C14: the search leaves obstacles alone: in every state of searchPath, and
\* in the grid it returns on success, the cells that hold an obstacle are the
\* ones that held one in the input, and no such cell is ever in the open
\* list or popped from it.
C14_ObstaclesUntouched ==
    /\ \A i \in DOMAIN given : \A j \in DOMAIN given[i] :
          (given[i][j] = kObstacle) <=> (grid[i][j] = kObstacle)
    /\ Success =>
          \A i \in DOMAIN given : \A j \in DOMAIN given[i] :
              (given[i][j] = kObstacle) <=> (solution[i][j] = kObstacle)
    /\ \A k \in DOMAIN dequeued : Cell(given, dequeued[k][1], dequeued[k][2]) # kObstacle
    /\ \A k \in DOMAIN openNodes : Cell(given, openNodes[k][1], openNodes[k][2]) # kObstacle

\* C14 witness: the search succeeded after expanding a cell next to an obstacle
C14_Witness ==
    /\ Success
    /\ \E k \in 1 .. (Len(dequeued) - 1) : \E p \in ObstacleCells(given) :
          heuristic(dequeued[k][1], dequeued[k][2], p[1], p[2]) = 1

\* The cells of g in one of the states ss
CellsIn(g, ss) == {p \in Positions(g) : Cell(g, p[1], p[2]) \in ss}

\* The positions of the nodes popped so far
DequeuedCells == {<<dequeued[k][1], dequeued[k][2]>> : k \in DOMAIN dequeued}

\* C15 as the claim states it: no cell is kPath, kStart or kFinish before the
\* goal has been popped, and on success only the cells of the route from the
\* start to the goal are: no more cells than the g + 1 cells of a route of g
\* steps, g being the cost of the goal node.
C15_MarkedOnlyAtSuccessOnRoute ==
    /\ (pc \in {"searchPath", "loop"}) =>
          CellsIn(grid, {kPath, kStart, kFinish}) = {}
    /\ Success =>
          Cardinality(CellsIn(solution, {kPath, kStart, kFinish})) <= LastDequeued[3] + 1

\* C15, amended: kPath is written while the search runs, to every cell at the
\* moment it is popped and found not to be the goal, the start cell
\* included; so before the goal is popped the kPath cells are exactly the
\* cells popped so far.  kStart and kFinish are written only at successful
\* termination, kStart to the start cell over its kPath and kFinish to the
\* goal cell, and to no other cell.
C15_PathAtDequeueStartFinishAtSuccess ==
    /\ (pc = "searchPath") => CellsIn(grid, {kPath, kStart, kFinish}) = {}
    /\ (pc = "loop" \/ (Returned /\ ~Success)) =>
          \A popped \in {DequeuedCells} :
              \A i \in DOMAIN grid : \A j \in DOMAIN grid[i] :
                  /\ (grid[i][j] = kPath) <=> (<<i - 1, j - 1>> \in popped)
                  /\ grid[i][j] \notin {kStart, kFinish}
    /\ Success =>
          \A i \in DOMAIN solution : \A j \in DOMAIN solution[i] :
              /\ (solution[i][j] = kStart) <=> (<<i - 1, j - 1>> = init)
              /\ (solution[i][j] = kFinish) <=> (<<i - 1, j - 1>> = goal)

\* C15 witness: the loop is running, the goal has not been popped, and the
\* start and two more cells are already kPath
C15_Witness ==
    /\ pc = "loop"
    /\ goal \notin DequeuedCells
    /\ Cell(grid, init[1], init[2]) = kPath
    /\ Cardinality(CellsIn(grid, {kPath})) >= 3

\* ends being the cells in which the obstacle-free 4-connected walks of n
\* steps from the start can end on g: every node of e whose g is n or more
\* lies in a cell in which such a walk of g steps can end
RECURSIVE OnWalks(_, _, _, _)
OnWalks(g, e, ends, n) ==
    IF \A k \in DOMAIN e : e[k][3] < n THEN TRUE
    ELSE /\ \A k \in DOMAIN e : (e[k][3] = n) => (<<e[k][1], e[k][2]>> \in ends)
         /\ OnWalks(g, e, UNION {FreeNeighbours(g, p) : p \in ends}, n + 1)

\* C16: the g of every node in the open list counts the steps of the chain
\* of expansions that found it: the start node has g = 0, every other node
\* is next to a popped node and has that node's g plus 1; so when the search
\* has returned, the g of every node it made, popped or not, is the length
\* of a 4-connected obstacle-free walk from the start to the node's cell.
C16_CostCountsExpansionSteps ==
    /\ \A k \in DOMAIN openNodes :
          \/ /\ dequeued = <<>>
             /\ openNodes[k] = <<init[1], init[2], 0, openNodes[k][4]>>
          \/ \E j \in DOMAIN dequeued :
                /\ heuristic(dequeued[j][1], dequeued[j][2],
                             openNodes[k][1], openNodes[k][2]) = 1
                /\ openNodes[k][3] = dequeued[j][3] + 1
    /\ Returned => OnWalks(given, Enqueued, {init}, 0)

\* C16 witness: the search returned after it found a cell by a walk that is
\* longer than the cell's distance from the start on an empty grid
C16_Witness ==
    /\ Returned
    /\ \E k \in DOMAIN Enqueued :
          /\ Enqueued[k][3] >= 4
          /\ Enqueued[k][3] > heuristic(init[1], init[2], Enqueued[k][1], Enqueued[k][2])

\* C17: on a rectangular grid with the start and the goal on it the search
\* never indexes the grid outside it: no step faults, every node it makes
\* lies on the grid, and it ends only with the solved grid or with the empty
\* grid that says no path was found.
C17_NoFaultingStep ==
    /\ pc \in {"searchPath", "loop", "done"}
    /\ \A k \in DOMAIN dequeued : inVectors(given, dequeued[k][1], dequeued[k][2])
    /\ \A k \in DOMAIN openNodes : inVectors(given, openNodes[k][1], openNodes[k][2])
    /\ DOMAIN grid = DOMAIN given
    /\ \A i \in DOMAIN given : DOMAIN grid[i] = DOMAIN given[i]
    /\ Returned =>
          \/ solution = <<>>
          \/ /\ DOMAIN solution = DOMAIN given
             /\ \A i \in DOMAIN given : DOMAIN solution[i] = DOMAIN given[i]

\* C17 witness: the search returned after it expanded the cell in the last
\* row and last column of a grid with more than one row and column, whose
\* lower and right neighbours lie off the grid
C17_Witness ==
    /\ Returned
    /\ Len(given) >= 2 /\ Len(given[1]) >= 2
    /\ <<Len(given) - 1, Len(given[1]) - 1>> \in ExpandedCells

\* C18: whenever the loop is about to test its condition, the coordinates of
\* the nodes in the open list are exactly the cells of the grid that are
\* kClosed.
C18_OpenListIsClosedCells ==
    (pc = "loop") =>
        \A open \in {{<<openNodes[k][1], openNodes[k][2]>> : k \in DOMAIN openNodes}} :
            \A i \in DOMAIN grid : \A j \in DOMAIN grid[i] :
                (grid[i][j] = kClosed) <=> (<<i - 1, j - 1>> \in open)

\* C18 witness: the loop is about to run again with three nodes in the list
\* after two cells were expanded
C18_Witness ==
    /\ pc = "loop"
    /\ Len(dequeued) >= 2
    /\ Len(openNodes) >= 3
    /\ Cardinality(CellsIn(grid, {kClosed})) = Len(openNodes)

\* C19: the f values of the popped nodes never decrease in the order the
\* nodes are popped, whichever of several nodes of least f is popped; and no
\* node in the open list has an f below that of the last popped node.
C19_DequeuedFNonDecreasing ==
    /\ \A k \in 1 .. (Len(dequeued) - 1) : F(dequeued[k]) <= F(dequeued[k + 1])
    /\ (dequeued # <<>>) =>
          \A j \in DOMAIN openNodes : F(LastDequeued) <= F(openNodes[j])

\* C19 witness: the search returned after popping nodes of at least three
\* different f values
C19_Witness ==
    /\ Returned
    /\ Cardinality({F(dequeued[k]) : k \in DOMAIN dequeued}) >= 3

====
